---- MODULE Spec2Model ----
(***************************************************************************)
(* Scheduling and escalation engine of the CPAP maintenance tracker:       *)
(* due-date calculator (lib/date-helpers.ts), schedule engine              *)
(* (lib/scheduler.ts), the record store it drives (lib/db-operations.ts),  *)
(* the due-item selector, escalation policy and check cycle                *)
(* (lib/notification-scheduler.ts, lib/notifications.ts), the scheduler    *)
(* singleton, the home-screen buckets (lib/store.ts, pages/Home.tsx) and   *)
(* the compliance analytics (lib/store.ts).                                *)
(*                                                                         *)
(* A Date is an integer number of hours since local midnight of day 0.     *)
(* An absent Date (undefined) is Null.                                     *)
(***************************************************************************)
EXTENDS Integers, Sequences, FiniteSets, TLC

VARIABLES now, components, actions, logs, result, probe,
          notificationConfigs, shownNotifications, delivered, checks, browser

\* the notification side: the NotificationConfig table, the shown-notification
\* records of localStorage, the notifications handed to the browser, the
\* checkAndNotify invocations in flight, and the browser's permission and badge
notifyVars == <<notificationConfigs, shownNotifications, delivered, checks, browser>>

vars == <<now, components, actions, logs, result, probe,
          notificationConfigs, shownNotifications, delivered, checks, browser>>

----
(* Bounds of the model *)

MaxFreq == 3
PureNowLo == 47
PureNowSpan == 26
MaxPureDue == 250
StartNow == 8
TickHours == 17
MaxNow == 59
MaxLogs == 1
BackdateHours == 26
MaxIncrement == 2
MaxOvershoot == 1
MaxIntervals == 3
MaxHoursOverdue == 25
MaxReminderCount == 5
MaxStreakLogs == 3
MaxDecrement == 1
MaxCalls == 2
MaxChecks == 8
MaxTimerIds == 4

(* Program constants *)

HoursPerDay == 24
DefaultWithinDays == 7
LookbackDays == 365
DefaultComplianceDays == 30

Null == -1

----
(* date-fns primitives as used by date-helpers.ts *)

startOfDay(d) == d - (d % HoursPerDay)

addDays(d, n) == d + n * HoursPerDay

addHours(d, h) == d + h

isBefore(a, b) == a < b

isAfter(a, b) == a > b

isSameDay(a, b) == startOfDay(a) = startOfDay(b)

isToday(d, clock) == isSameDay(d, clock)

compareLocalAsc(a, b) == IF a < b THEN -1 ELSE IF a > b THEN 1 ELSE 0

differenceInCalendarDays(l, r) == (startOfDay(l) - startOfDay(r)) \div HoursPerDay

Abs(x) == IF x < 0 THEN -x ELSE x

\* full days between l and r, truncated toward zero
differenceInDays(l, r) ==
    LET sign == compareLocalAsc(l, r)
        difference == Abs(differenceInCalendarDays(l, r))
        shifted == addDays(l, -(sign * difference))
        isLastDayNotFull == IF compareLocalAsc(shifted, r) = -sign THEN 1 ELSE 0
    IN  sign * (difference - isLastDayNotFull)

----
(* lib/date-helpers.ts *)

RECURSIVE AdvanceUntilFuture(_, _, _)
\* the while loop of calculateNextDueDate
AdvanceUntilFuture(nextDue, frequency, clock) ==
    IF isBefore(nextDue, clock) \/ isToday(nextDue, clock)
    THEN AdvanceUntilFuture(addDays(nextDue, frequency), frequency, clock)
    ELSE nextDue

\* variant: the next occurrence counted from the clock instead of the anchor
calculateNextDueDate_fromNow(originalDueDate, frequency, unit, clock) ==
    IF unit = "uses"
    THEN originalDueDate
    ELSE AdvanceUntilFuture(clock, frequency, clock)

calculateNextDueDate(originalDueDate, frequency, unit, clock) ==
    IF unit = "uses"
    THEN originalDueDate
    ELSE AdvanceUntilFuture(originalDueDate, frequency, clock)

\* a notification time "HH:MM" is kept as its hour; minutes are 00
setTime(date, timeHour) == startOfDay(date) + timeHour

\* variant: a usage-based action is due as soon as it is initialized
calculateInitialDueDate_usesNow(frequency, unit, notificationTime, clock) ==
    IF unit = "uses"
    THEN clock
    ELSE IF notificationTime # Null
         THEN setTime(addDays(clock, frequency), notificationTime)
         ELSE addDays(clock, frequency)

calculateInitialDueDate(frequency, unit, notificationTime, clock) ==
    IF unit = "uses"
    THEN addDays(clock, frequency)
    ELSE IF notificationTime # Null
         THEN setTime(addDays(clock, frequency), notificationTime)
         ELSE addDays(clock, frequency)

isOverdue(dueDate, clock) ==
    IF dueDate = Null THEN FALSE
    ELSE differenceInDays(clock, dueDate) > 0

isDueToday(dueDate, clock) ==
    IF dueDate = Null THEN FALSE
    ELSE isToday(dueDate, clock)

isUpcoming(dueDate, withinDays, clock) ==
    IF dueDate = Null THEN FALSE
    ELSE isAfter(dueDate, clock) /\ isBefore(dueDate, addDays(clock, withinDays))

----
(* Record store: lib/db.ts tables driven through lib/db-operations.ts *)

ComponentIds == {"c1", "c2"}
ActionIds == {"a1", "a2", "a3"}
UnknownId == "zz"

NewComponent == [usage_count |-> 0, is_active |-> TRUE]

NewAction(component, frequency, unit, time, strategy) ==
    [component_id |-> component, schedule_frequency |-> frequency,
     schedule_unit |-> unit, notification_time |-> time,
     reminder_strategy |-> strategy, last_completed |-> Null, next_due |-> Null]

\* variant: the log stamped with the clock instead of completedAt
NewLog_stampedNow(action, actionId, completedAt, wasOverdue) ==
    [component_id |-> action.component_id, action_id |-> actionId,
     completed_at |-> now, was_overdue |-> wasOverdue, logged_by |-> "user"]

NewLog(action, actionId, completedAt, wasOverdue) ==
    [component_id |-> action.component_id, action_id |-> actionId,
     completed_at |-> completedAt, was_overdue |-> wasOverdue, logged_by |-> "user"]

\* what the last call returned, with its arguments: the action id, the
\* argument (completedAt, hours or newDueDate), the clock of the call, the
\* action's next_due before the call, and the operation that preceded it on
\* the same action
NoResult == [op |-> "none", id |-> UnknownId, error |-> FALSE, value |-> Null,
             arg |-> Null, at |-> Null, prevDue |-> Null, after |-> "none"]

Preceding(id) == IF result.id = id /\ ~result.error THEN result.op ELSE "none"

Returned(op, id, value, arg, prevDue) ==
    [op |-> op, id |-> id, error |-> FALSE, value |-> value, arg |-> arg,
     at |-> now, prevDue |-> prevDue, after |-> Preceding(id)]

NotFound(op, id) == [NoResult EXCEPT !.op = op, !.id = id, !.error = TRUE, !.at = now]

\* maintenanceActions.getByComponent
getByComponent(componentId) ==
    {a \in DOMAIN actions : actions[a].component_id = componentId}

\* who calls checkAndNotify: the periodic timer and the visibility listener
Invokers == {"timer", "resume"}

IdleCheck == [phase |-> "idle", at |-> Null, dueItems |-> <<>>]

\* no configs, nothing shown, no check in flight
NotifyIdle ==
    /\ notificationConfigs = <<>>
    /\ shownNotifications = <<>>
    /\ delivered = [a \in ActionIds |-> <<>>]
    /\ checks = [p \in Invokers |-> IdleCheck]
    /\ browser = [permission |-> "default", badge |-> 0]

----
(* Schedule engine: lib/scheduler.ts *)

\* step 1 of complete: the overdue flag written to the log
completeWasOverdue(action, completedAt, clock) ==
    IF action.next_due # Null THEN isOverdue(action.next_due, clock) ELSE FALSE

\* variant: the next due date counted from the completion instead of the anchor
completeNextDue_fromCompletedAt(action, completedAt, clock) ==
    LET nextDueDate == calculateNextDueDate(completedAt, action.schedule_frequency,
                                            action.schedule_unit, clock)
    IN  IF action.notification_time # Null
        THEN setTime(nextDueDate, action.notification_time)
        ELSE nextDueDate

\* steps 3-4 of complete: next due date from the pre-completion next_due
completeNextDue(action, completedAt, clock) ==
    LET originalDueDate == IF action.next_due # Null THEN action.next_due ELSE completedAt
        nextDueDate == calculateNextDueDate(originalDueDate, action.schedule_frequency,
                                            action.schedule_unit, clock)
    IN  IF action.notification_time # Null
        THEN setTime(nextDueDate, action.notification_time)
        ELSE nextDueDate

completeMaintenanceAction(actionId, completedAt) ==
    /\ Len(logs) < MaxLogs
    /\ IF actionId \notin DOMAIN actions
       THEN /\ result' = NotFound("complete", actionId)
            /\ UNCHANGED <<actions, logs>>
       ELSE LET action == actions[actionId]
                wasOverdue == completeWasOverdue(action, completedAt, now)
                nextDueDate == completeNextDue(action, completedAt, now)
            IN  /\ logs' = Append(logs, NewLog(action, actionId, completedAt, wasOverdue))
                /\ actions' = [actions EXCEPT ![actionId].last_completed = completedAt,
                                              ![actionId].next_due = nextDueDate]
                /\ result' = Returned("complete", actionId, nextDueDate, completedAt,
                                      action.next_due)
    /\ UNCHANGED <<now, components, probe>>
    /\ UNCHANGED notifyVars

\* variant: skip moves the due date by one interval, whatever the clock
skipNextDue_oneStep(action, clock) ==
    LET originalDueDate == IF action.next_due # Null THEN action.next_due ELSE clock
        nextDueDate == addDays(originalDueDate, action.schedule_frequency)
    IN  IF action.notification_time # Null
        THEN setTime(nextDueDate, action.notification_time)
        ELSE nextDueDate

skipNextDue(action, clock) ==
    LET originalDueDate == IF action.next_due # Null THEN action.next_due ELSE clock
        nextDueDate == calculateNextDueDate(originalDueDate, action.schedule_frequency,
                                            action.schedule_unit, clock)
    IN  IF action.notification_time # Null
        THEN setTime(nextDueDate, action.notification_time)
        ELSE nextDueDate

skipMaintenanceAction(actionId) ==
    /\ IF actionId \notin DOMAIN actions
       THEN /\ result' = NotFound("skip", actionId)
            /\ UNCHANGED <<actions, logs>>
       ELSE LET action == actions[actionId]
                finalNextDue == skipNextDue(action, now)
            IN  /\ actions' = [actions EXCEPT ![actionId].next_due = finalNextDue]
                /\ result' = Returned("skip", actionId, finalNextDue, Null, action.next_due)
                /\ UNCHANGED logs
    /\ UNCHANGED <<now, components, probe>>
    /\ UNCHANGED notifyVars

\* variant: snooze keeps a due date that is already set
snoozeUntil_keepAnchor(action, hours, clock) ==
    IF action.next_due # Null THEN action.next_due ELSE clock + hours

snoozeUntil(action, hours, clock) == clock + hours

\* variant: snooze stamps last_completed as well
snoozeMaintenanceAction_touch(actionId, hours) ==
    /\ IF actionId \notin DOMAIN actions
       THEN /\ result' = NotFound("snooze", actionId)
            /\ UNCHANGED <<actions, logs>>
       ELSE LET action == actions[actionId]
                until == snoozeUntil(action, hours, now)
            IN  /\ actions' = [actions EXCEPT ![actionId].next_due = until,
                                              ![actionId].last_completed = now]
                /\ result' = Returned("snooze", actionId, until, hours, action.next_due)
                /\ UNCHANGED logs
    /\ UNCHANGED <<now, components, probe>>
    /\ UNCHANGED notifyVars

snoozeMaintenanceAction(actionId, hours) ==
    /\ IF actionId \notin DOMAIN actions
       THEN /\ result' = NotFound("snooze", actionId)
            /\ UNCHANGED <<actions, logs>>
       ELSE LET action == actions[actionId]
                until == snoozeUntil(action, hours, now)
            IN  /\ actions' = [actions EXCEPT ![actionId].next_due = until]
                /\ result' = Returned("snooze", actionId, until, hours, action.next_due)
                /\ UNCHANGED logs
    /\ UNCHANGED <<now, components, probe>>
    /\ UNCHANGED notifyVars

\* variant: initialize without the early return
initializeNextDue_always(action, clock) ==
    calculateInitialDueDate(action.schedule_frequency, action.schedule_unit,
                            action.notification_time, clock)

\* the early return of initialize: an action that has a next_due is left alone
initializeNextDue(action, clock) ==
    IF action.next_due # Null
    THEN action.next_due
    ELSE calculateInitialDueDate(action.schedule_frequency, action.schedule_unit,
                                 action.notification_time, clock)

initializeMaintenanceAction(actionId) ==
    /\ IF actionId \notin DOMAIN actions
       THEN /\ result' = NotFound("initialize", actionId)
            /\ UNCHANGED <<actions, logs>>
       ELSE LET action == actions[actionId]
                due == initializeNextDue(action, now)
            IN  /\ actions' = [actions EXCEPT ![actionId].next_due = due]
                /\ result' = Returned("initialize", actionId, due, Null, action.next_due)
                /\ UNCHANGED logs
    /\ UNCHANGED <<now, components, probe>>
    /\ UNCHANGED notifyVars

initializeAllMaintenanceActions ==
    /\ \E a \in DOMAIN actions : actions[a].next_due = Null
    /\ actions' = [a \in DOMAIN actions |->
                     IF actions[a].next_due = Null
                     THEN [actions[a] EXCEPT !.next_due = initializeNextDue(actions[a], now)]
                     ELSE actions[a]]
    /\ result' = [NoResult EXCEPT !.op = "initializeAll", !.at = now,
                    !.value = Cardinality({a \in DOMAIN actions : actions[a].next_due = Null})]
    /\ UNCHANGED <<now, components, logs, probe>>
    /\ UNCHANGED notifyVars

\* maintenanceActions.update on a missing key changes nothing and does not throw
rescheduleMaintenanceAction(actionId, newDueDate) ==
    /\ IF actionId \notin DOMAIN actions
       THEN /\ result' = [NoResult EXCEPT !.op = "reschedule", !.id = actionId,
                                          !.arg = newDueDate, !.at = now]
            /\ UNCHANGED <<actions, logs>>
       ELSE /\ actions' = [actions EXCEPT ![actionId].next_due = newDueDate]
            /\ result' = Returned("reschedule", actionId, Null, newDueDate,
                                  actions[actionId].next_due)
            /\ UNCHANGED logs
    /\ UNCHANGED <<now, components, probe>>
    /\ UNCHANGED notifyVars

\* components.incrementUsage
incrementUsage(componentId, increment) ==
    IF componentId \in DOMAIN components
    THEN [components EXCEPT ![componentId].usage_count = @ + increment]
    ELSE components

\* variant: the threshold must be exceeded, not reached
usageNextDue_exceeded(action, component, clock) ==
    IF /\ action.schedule_unit = "uses"
       /\ component.usage_count > action.schedule_frequency
       /\ (action.next_due = Null \/ action.next_due > clock)
    THEN clock
    ELSE action.next_due

\* the loop body of updateComponentUsage for one action of the component
usageNextDue(action, component, clock) ==
    IF /\ action.schedule_unit = "uses"
       /\ component.usage_count >= action.schedule_frequency
       /\ (action.next_due = Null \/ action.next_due > clock)
    THEN clock
    ELSE action.next_due

\* the actions updateComponentUsage looks at
usageCandidates(componentId) == getByComponent(componentId)

updateComponentUsage(componentId, usageIncrement) ==
    /\ IF componentId \notin DOMAIN components
       THEN /\ result' = NotFound("updateUsage", componentId)
            /\ UNCHANGED <<components, actions>>
       ELSE LET updated == incrementUsage(componentId, usageIncrement)
                component == updated[componentId]
            IN  /\ components' = updated
                /\ actions' = [a \in DOMAIN actions |->
                                 IF a \in usageCandidates(componentId)
                                 THEN [actions[a] EXCEPT
                                         !.next_due = usageNextDue(actions[a], component, now)]
                                 ELSE actions[a]]
                /\ result' = [NoResult EXCEPT !.op = "updateUsage", !.id = componentId,
                                !.value = component.usage_count,
                                !.arg = usageIncrement, !.at = now]
    /\ UNCHANGED <<now, logs, probe>>
    /\ UNCHANGED notifyVars

\* variant: the action's delete that leaves its notification config behind
deleteAction_keepConfig(store, actionId) ==
    [configs |-> store.configs,
     logs |-> SelectSeq(store.logs, LAMBDA log : log.action_id # actionId),
     actions |-> [a \in DOMAIN store.actions \ {actionId} |-> store.actions[a]]]

\* maintenanceActions.delete on the three tables it writes: the configs and
\* the logs of the action go, then the action
deleteAction(store, actionId) ==
    [configs |-> SelectSeq(store.configs, LAMBDA nc : nc.action_id # actionId),
     logs |-> SelectSeq(store.logs, LAMBDA log : log.action_id # actionId),
     actions |-> [a \in DOMAIN store.actions \ {actionId} |-> store.actions[a]]]

RECURSIVE deleteActions(_, _)
\* the for loop of components.delete over the actions of the component
deleteActions(store, ids) ==
    IF ids = {} THEN store
    ELSE LET a == CHOOSE x \in ids : TRUE
         IN  deleteActions(deleteAction(store, a), ids \ {a})

\* components.delete: the actions of the component with their configs and
\* logs, the logs of the component, the component; probe keeps the actions
\* the loop went over
deleteComponent(id) ==
    LET own == getByComponent(id)
        store == deleteActions([configs |-> notificationConfigs, logs |-> logs,
                                actions |-> actions], own)
    IN  /\ notificationConfigs' = store.configs
        /\ logs' = SelectSeq(store.logs, LAMBDA log : log.component_id # id)
        /\ actions' = store.actions
        /\ components' = [c \in DOMAIN components \ {id} |-> components[c]]
        /\ result' = [NoResult EXCEPT !.op = "delete", !.id = id, !.at = now]
        /\ probe' = [kind |-> "delete", removed |-> own]
        /\ UNCHANGED <<now, shownNotifications, delivered, checks, browser>>

\* updateComponentUsage as the event loop runs it: each await of a store
\* operation is a point where another invocation can run. A call in flight
\* holds its arguments and the component it has read; completed keeps, per
\* component, the number of the calls that have returned, and unit tells
\* that every call so far had increment 1
UsageCallers == {"u1", "u2"}

IdleCall == [phase |-> "idle", id |-> UnknownId, increment |-> 0,
             found |-> FALSE, usage_count |-> 0]

NoUsageCalls ==
    [kind |-> "usage",
     calls |-> [p \in UsageCallers |-> IdleCall],
     started |-> 0,
     unit |-> TRUE,
     completed |-> [c \in ComponentIds |-> 0]]

\* incrementUsage up to its first suspension: await db.components.get(id)
incrementUsage_get(p, componentId, increment) ==
    /\ probe.calls[p].phase = "idle"
    /\ probe.started < MaxCalls
    /\ LET found == componentId \in DOMAIN components
       IN  probe' = [probe EXCEPT
                       !.calls[p] = [phase |-> "read", id |-> componentId,
                                     increment |-> increment, found |-> found,
                                     usage_count |-> IF found
                                                     THEN components[componentId].usage_count
                                                     ELSE 0],
                       !.started = @ + 1,
                       !.unit = @ /\ increment = 1]
    /\ UNCHANGED <<now, components, actions, logs, result>>
    /\ UNCHANGED notifyVars

\* incrementUsage after the read: await db.components.update(id, ...) with
\* the count that was read plus the increment
incrementUsage_update(p) ==
    LET call == probe.calls[p]
    IN  /\ call.phase = "read"
        /\ components' = IF call.found /\ call.id \in DOMAIN components
                          THEN [components EXCEPT ![call.id].usage_count =
                                    call.usage_count + call.increment]
                          ELSE components
        /\ probe' = [probe EXCEPT !.calls[p].phase = "written"]
        /\ UNCHANGED <<now, actions, logs, result>>
        /\ UNCHANGED notifyVars

\* updateComponentUsage after incrementUsage has returned: getById,
\* getByComponent and the loop over the usage-based actions
updateComponentUsage_recalculate(p) ==
    LET call == probe.calls[p]
    IN  /\ call.phase = "written"
        /\ IF call.id \notin DOMAIN components
           THEN /\ result' = NotFound("updateUsage", call.id)
                /\ UNCHANGED actions
                /\ probe' = [probe EXCEPT !.calls[p] = IdleCall]
           ELSE LET component == components[call.id]
                IN  /\ actions' = [a \in DOMAIN actions |->
                                     IF a \in usageCandidates(call.id)
                                     THEN [actions[a] EXCEPT
                                             !.next_due = usageNextDue(actions[a], component, now)]
                                     ELSE actions[a]]
                    /\ result' = [NoResult EXCEPT !.op = "updateUsage", !.id = call.id,
                                    !.value = component.usage_count,
                                    !.arg = call.increment, !.at = now]
                    /\ probe' = [probe EXCEPT
                                    !.calls[p] = IdleCall,
                                    !.completed[call.id] = @ + 1]
        /\ UNCHANGED <<now, components, logs>>
        /\ UNCHANGED notifyVars

----
(* Home screen: the selectors of lib/store.ts, getMaintenanceSummary of *)
(* lib/scheduler.ts and the empty state of pages/Home.tsx              *)

\* new Date(y, m, d, 23, 59, 59) on the model's grid of whole hours
endOfDay(clock) == startOfDay(clock) + HoursPerDay - 1

useOverdueActions(clock) ==
    {a \in DOMAIN actions :
        /\ actions[a].next_due # Null
        /\ (clock - actions[a].next_due) \div HoursPerDay > 0}

useDueTodayActions(clock) ==
    {a \in DOMAIN actions :
        /\ actions[a].next_due # Null
        /\ actions[a].next_due >= startOfDay(clock)
        /\ actions[a].next_due <= endOfDay(clock)}

hasActionsNeedingAttention(clock) ==
    Cardinality(useOverdueActions(clock)) > 0 \/ Cardinality(useDueTodayActions(clock)) > 0

\* the empty state of the home page with the title All caught up!
showsAllCaughtUp(clock) ==
    ~hasActionsNeedingAttention(clock) /\ Cardinality(DOMAIN components) # 0

\* the counters of getMaintenanceSummary: the branches of its loop
getMaintenanceSummary(clock) ==
    LET dated == {a \in DOMAIN actions : actions[a].next_due # Null}
        overdue == {a \in dated : isOverdue(actions[a].next_due, clock)}
        dueToday == {a \in dated \ overdue :
                        /\ actions[a].next_due >= startOfDay(clock)
                        /\ actions[a].next_due <= endOfDay(clock)}
        upcoming == {a \in dated \ (overdue \cup dueToday) : actions[a].next_due > clock}
    IN  [overdueCount |-> Cardinality(overdue),
         dueTodayCount |-> Cardinality(dueToday),
         upcomingCount |-> Cardinality(upcoming),
         allCaughtUp |-> Cardinality(overdue) = 0 /\ Cardinality(dueToday) = 0]

----
(* Escalation policy: lib/notification-scheduler.ts *)

\* an optional value (T | undefined) is a sequence of length 0 or 1
Absent == <<>>
Present(x) == <<x>>
IsPresent(opt) == Len(opt) > 0
Value(opt) == opt[1]

NewNotificationConfig(actionId, enabled, strategy, intervals) ==
    [action_id |-> actionId, enabled |-> enabled,
     escalation_strategy |-> strategy, escalation_intervals |-> intervals]

getDefaultEscalationStrategy(reminderStrategy) ==
    CASE reminderStrategy = "gentle" -> "single_daily"
      [] reminderStrategy = "standard" -> "multiple_daily"
      [] reminderStrategy = "urgent" -> "increasing_urgency"
      [] OTHER -> "single_daily"

\* variant: the standard defaults without the 8 hour checkpoint
getDefaultEscalationIntervals_short(reminderStrategy) ==
    CASE reminderStrategy = "gentle" -> <<0>>
      [] reminderStrategy = "standard" -> <<0, 4>>
      [] reminderStrategy = "urgent" -> <<0, 2, 4, 8, 12>>
      [] OTHER -> <<0>>

getDefaultEscalationIntervals(reminderStrategy) ==
    CASE reminderStrategy = "gentle" -> <<0>>
      [] reminderStrategy = "standard" -> <<0, 4, 8>>
      [] reminderStrategy = "urgent" -> <<0, 2, 4, 8, 12>>
      [] OTHER -> <<0>>

\* notificationConfig?.escalation_strategy || default
effectiveStrategy(dueItem) ==
    IF IsPresent(dueItem.notificationConfig)
    THEN Value(dueItem.notificationConfig).escalation_strategy
    ELSE getDefaultEscalationStrategy(dueItem.action.reminder_strategy)

\* notificationConfig?.escalation_intervals || default (an array is truthy,
\* the empty one included)
effectiveIntervals(dueItem) ==
    IF IsPresent(dueItem.notificationConfig)
    THEN Value(dueItem.notificationConfig).escalation_intervals
    ELSE getDefaultEscalationIntervals(dueItem.action.reminder_strategy)

\* Array.prototype.indexOf: the first position (from 0) of x, or -1
indexOf(list, x) ==
    IF \E i \in 1..Len(list) : list[i] = x
    THEN (CHOOSE i \in 1..Len(list) :
              list[i] = x /\ \A j \in 1..(i - 1) : list[j] # x) - 1
    ELSE -1

singleDaily(currentReminderCount) == currentReminderCount = 0

multipleDaily(intervals, hoursOverdue, currentReminderCount) ==
    \E i \in 1..Len(intervals) :
        /\ hoursOverdue >= intervals[i]
        /\ currentReminderCount <= indexOf(intervals, intervals[i])

\* variant: the checkpoints of increasing urgency read from the intervals
increasingUrgency_fromIntervals(intervals, hoursOverdue, currentReminderCount) ==
    \/ currentReminderCount = 0
    \/ /\ currentReminderCount < Len(intervals)
       /\ hoursOverdue >= intervals[currentReminderCount + 1]

increasingUrgency(intervals, hoursOverdue, currentReminderCount) ==
    IF currentReminderCount = 0 THEN TRUE
    ELSE IF hoursOverdue >= 4 /\ currentReminderCount = 1 THEN TRUE
    ELSE IF hoursOverdue >= 8 /\ currentReminderCount = 2 THEN TRUE
    ELSE IF hoursOverdue >= 24 /\ currentReminderCount = 3 THEN TRUE
    ELSE FALSE

shouldShowReminder(dueItem, currentReminderCount) ==
    LET strategy == effectiveStrategy(dueItem)
        intervals == effectiveIntervals(dueItem)
        hoursOverdue == dueItem.hoursOverdue
    IN  CASE strategy = "single_daily" -> singleDaily(currentReminderCount)
          [] strategy = "multiple_daily" ->
                multipleDaily(intervals, hoursOverdue, currentReminderCount)
          [] strategy = "increasing_urgency" ->
                increasingUrgency(intervals, hoursOverdue, currentReminderCount)
          [] OTHER -> currentReminderCount = 0

----
(* Due-item selector and check cycle: lib/notification-scheduler.ts with *)
(* the shown-notification records of lib/notifications.ts                *)

\* toArray returns the rows of a table in primary-key order
ActionOrder == <<"a1", "a2", "a3">>

\* allNotificationConfigs.find(nc => nc.action_id === action.id)
findConfig(configs, actionId) ==
    LET hits == SelectSeq(configs, LAMBDA nc : nc.action_id = actionId)
    IN  IF Len(hits) > 0 THEN Present(hits[1]) ELSE Absent

\* variant: the selection that does not look at the component
isSelected_anyComponent(actionId, clock) ==
    LET action == actions[actionId]
        notificationConfig == findConfig(notificationConfigs, actionId)
    IN  /\ action.next_due # Null
        /\ action.next_due <= clock
        /\ ~(IsPresent(notificationConfig) /\ ~Value(notificationConfig).enabled)

\* the body of the selection loop: does the action yield a due item
isSelected(actionId, clock) ==
    LET action == actions[actionId]
        notificationConfig == findConfig(notificationConfigs, actionId)
    IN  /\ action.next_due # Null
        /\ action.next_due <= clock
        /\ action.component_id \in DOMAIN components
        /\ components[action.component_id].is_active
        /\ ~(IsPresent(notificationConfig) /\ ~Value(notificationConfig).enabled)

NewDueItem(actionId, clock) ==
    LET action == actions[actionId]
    IN  [id |-> actionId,
         action |-> action,
         component |-> components[action.component_id],
         notificationConfig |-> findConfig(notificationConfigs, actionId),
         isOverdue |-> isOverdue(action.next_due, clock),
         hoursOverdue |-> IF clock - action.next_due > 0
                          THEN clock - action.next_due ELSE 0]

\* variant: the comparator without the overdue bucket, least overdue first
compareDueItems_ascending(a, b) == a.hoursOverdue - b.hoursOverdue

\* the comparator handed to sort
compareDueItems(a, b) ==
    IF a.isOverdue /\ ~b.isOverdue THEN -1
    ELSE IF ~a.isOverdue /\ b.isOverdue THEN 1
    ELSE b.hoursOverdue - a.hoursOverdue

\* x goes behind every item that does not compare after it (a stable sort)
insertDueItem(sorted, x) ==
    LET behind == {i \in 1..Len(sorted) : compareDueItems(sorted[i], x) <= 0}
        k == IF behind = {} THEN 0
             ELSE CHOOSE i \in behind : \A j \in behind : j <= i
    IN  SubSeq(sorted, 1, k) \o <<x>> \o SubSeq(sorted, k + 1, Len(sorted))

RECURSIVE sortDueItems(_)
sortDueItems(items) ==
    IF Len(items) = 0 THEN <<>>
    ELSE insertDueItem(sortDueItems(SubSeq(items, 1, Len(items) - 1)), items[Len(items)])

RECURSIVE collectDueItems(_, _)
\* the selection loop over allActions from position i
collectDueItems(i, clock) ==
    IF i > Len(ActionOrder) THEN <<>>
    ELSE LET a == ActionOrder[i]
         IN  (IF a \in DOMAIN actions /\ isSelected(a, clock)
              THEN <<NewDueItem(a, clock)>> ELSE <<>>)
             \o collectDueItems(i + 1, clock)

getDueItemsForNotification(clock) == sortDueItems(collectDueItems(1, clock))

areNotificationsAllowed == browser.permission = "granted"

\* variant: the read that does not filter by calendar day
getShownNotifications_anyDay(records, clock) == records

\* the records of localStorage that were shown on the calendar day of clock
getShownNotifications(records, clock) ==
    SelectSeq(records, LAMBDA r : isSameDay(r.shownAt, clock))

\* variant: the read that does not see the records written so far
getReminderCount_unseen(records, actionId, clock) == 0

getReminderCount(records, actionId, clock) ==
    LET today == SelectSeq(getShownNotifications(records, clock),
                           LAMBDA r : r.actionId = actionId)
    IN  IF Len(today) > 0 THEN today[1].reminderCount ELSE 0

\* variant: the write that loses the count
recordNotificationShown_noCount(records, actionId, reminderCount, clock) ==
    getShownNotifications(records, clock)

\* today's records with the action's record replaced or appended; the
\* records of earlier days are dropped by the write
recordNotificationShown(records, actionId, reminderCount, clock) ==
    LET today == getShownNotifications(records, clock)
    IN  IF \E i \in 1..Len(today) : today[i].actionId = actionId
        THEN LET existingIndex == CHOOSE i \in 1..Len(today) :
                                      /\ today[i].actionId = actionId
                                      /\ \A j \in 1..(i - 1) : today[j].actionId # actionId
             IN  [today EXCEPT ![existingIndex] =
                     [actionId |-> actionId, shownAt |-> clock,
                      reminderCount |-> reminderCount]]
        ELSE Append(today, [actionId |-> actionId, shownAt |-> clock,
                            reminderCount |-> reminderCount])

RECURSIVE notifyLoop(_, _, _, _, _)
\* the for loop of checkAndNotify from item i: the records and, per action,
\* the notifications shown so far; constructed tells whether the browser
\* returns a Notification object
notifyLoop(dueItems, i, records, shown, constructed) ==
    IF i > Len(dueItems)
    THEN [records |-> records, shown |-> shown]
    ELSE LET item == dueItems[i]
             currentReminderCount == getReminderCount(records, item.id, now)
         IN  IF ~shouldShowReminder(item, currentReminderCount) \/ ~constructed
             THEN notifyLoop(dueItems, i + 1, records, shown, constructed)
             ELSE notifyLoop(dueItems, i + 1,
                             recordNotificationShown(records, item.id,
                                                     currentReminderCount + 1, now),
                             [shown EXCEPT ![item.id] = Append(@,
                                    [at |-> now,
                                     reminderCount |-> currentReminderCount + 1,
                                     kind |-> IF item.isOverdue /\ currentReminderCount > 0
                                              THEN "reminder" ELSE "maintenance"])],
                             constructed)

\* checkAndNotify up to its first suspension: the permission test and the scan
checkAndNotify_scan(p) ==
    /\ checks[p].phase = "idle"
    /\ IF ~areNotificationsAllowed
       THEN checks' = [checks EXCEPT ![p] = IdleCheck]
       ELSE checks' = [checks EXCEPT ![p] =
                         [phase |-> "scanned", at |-> now,
                          dueItems |-> getDueItemsForNotification(now)]]
    /\ UNCHANGED <<now, components, actions, logs, result, probe>>
    /\ UNCHANGED <<notificationConfigs, shownNotifications, delivered, browser>>

\* checkAndNotify from the scan's result on: the loop and updateBadgeCount
checkAndNotify_notify(p, constructed) ==
    /\ checks[p].phase = "scanned"
    /\ LET done == notifyLoop(checks[p].dueItems, 1, shownNotifications, delivered,
                              constructed /\ areNotificationsAllowed)
       IN  /\ shownNotifications' = done.records
           /\ delivered' = done.shown
           /\ checks' = [checks EXCEPT ![p] = IdleCheck]
    /\ browser' = [browser EXCEPT !.badge = Len(getDueItemsForNotification(now))]
    /\ UNCHANGED <<now, components, actions, logs, result, probe, notificationConfigs>>

----
(* Scheduler: the class NotificationScheduler and its singleton in *)
(* lib/notification-scheduler.ts                                   *)

\* the module's singleton with the fields of the instance, and what the
\* window holds for it: the intervals set and not cleared, the listeners of
\* visibilitychange, the last id setInterval has handed out, the number of
\* calls of check() so far, and the last call made
NoScheduler ==
    [kind |-> "scheduler",
     schedulerInstance |-> FALSE,
     isRunning |-> FALSE,
     checkIntervalId |-> Null,
     intervals |-> {},
     listeners |-> {},
     lastId |-> 0,
     checked |-> 0,
     op |-> "none"]

\* check(): checkAndNotify returns 0 at its first test while the permission
\* is not granted, so the call leaves the store as it is
check(s) == [s EXCEPT !.checked = @ + 1]

isActive(s) == s.isRunning

\* variant: start without the test of isRunning
scheduler_start_unguarded(s) ==
    LET id == s.lastId + 1
    IN  [check(s) EXCEPT !.isRunning = TRUE,
                         !.lastId = id,
                         !.checkIntervalId = id,
                         !.intervals = @ \cup {id},
                         !.listeners = @ \cup {"handleVisibilityChange"}]

\* start(): setInterval returns a fresh positive id; addEventListener keeps
\* one entry per listener function
scheduler_start(s) ==
    IF s.isRunning THEN s
    ELSE LET id == s.lastId + 1
         IN  [check(s) EXCEPT !.isRunning = TRUE,
                              !.lastId = id,
                              !.checkIntervalId = id,
                              !.intervals = @ \cup {id},
                              !.listeners = @ \cup {"handleVisibilityChange"}]

scheduler_stop(s) ==
    IF ~s.isRunning THEN s
    ELSE LET cleared == IF s.checkIntervalId # Null /\ s.checkIntervalId # 0
                        THEN [s EXCEPT !.intervals = @ \ {s.checkIntervalId},
                                       !.checkIntervalId = Null]
                        ELSE s
         IN  [cleared EXCEPT !.isRunning = FALSE,
                             !.listeners = @ \ {"handleVisibilityChange"}]

getScheduler(s) == [s EXCEPT !.schedulerInstance = TRUE]

SchedulerIdle ==
    /\ areNotificationsAllowed = FALSE
    /\ UNCHANGED <<now, components, actions, logs, result>>
    /\ UNCHANGED notifyVars

getNotificationScheduler ==
    /\ probe' = [getScheduler(probe) EXCEPT !.op = "get"]
    /\ SchedulerIdle

startNotificationScheduler ==
    /\ probe.isRunning \/ (probe.lastId < MaxTimerIds /\ probe.checked < MaxChecks)
    /\ probe' = [scheduler_start(getScheduler(probe)) EXCEPT !.op = "start"]
    /\ SchedulerIdle

stopNotificationScheduler ==
    /\ probe' = [(IF probe.schedulerInstance THEN scheduler_stop(probe) ELSE probe)
                    EXCEPT !.op = "stop"]
    /\ SchedulerIdle

\* the callback of setInterval runs for an interval that is set
intervalElapsed ==
    /\ probe.checked < MaxChecks
    /\ \E id \in probe.intervals : probe' = [check(probe) EXCEPT !.op = "interval"]
    /\ SchedulerIdle

\* visibilitychange is dispatched to the listeners registered for it
handleVisibilityChange(visibilityState) ==
    /\ probe.checked < MaxChecks
    /\ "handleVisibilityChange" \in probe.listeners
    /\ probe' = [(IF visibilityState = "visible" THEN check(probe) ELSE probe)
                    EXCEPT !.op = visibilityState]
    /\ SchedulerIdle

----
(* Compliance analytics: useCurrentStreak and useCompliancePercentage of *)
(* lib/store.ts, calculateStreak and calculateCompliancePercentage of    *)
(* lib/date-helpers.ts                                                   *)

\* date.toISOString().split('T')[0]: the calendar day of the instant in UTC,
\* where local time is tz hours ahead of UTC
toISODay(date, tz) == (date - tz) \div HoursPerDay

\* format(date, 'yyyy-MM-dd'): the local calendar day
formatDay(date) == date \div HoursPerDay

\* the actions the analytics count: days-unit with a positive frequency
calendarActions ==
    {a \in DOMAIN actions :
        actions[a].schedule_unit = "days" /\ actions[a].schedule_frequency > 0}

\* the two while loops of the projection: the dates on the action's cadence
\* through next_due (or now) between one year ago and now
occurrences(action, clock) ==
    LET first == IF action.next_due # Null THEN action.next_due ELSE clock
        step == action.schedule_frequency * HoursPerDay
        oneYearAgo == clock - LookbackDays * HoursPerDay
        lowest == -((first - oneYearAgo) \div step)
        highest == (clock - first) \div step
    IN  {first + j * step : j \in lowest..highest}

\* the for loop of the streak. Day i of the walk has its local midnight at
\* start - i days and the key of that instant less shift hours;
\* scheduledDays[a] and completedDays[a] are the day keys of the action's
\* occurrences and completions. The loop breaks at the first day that has
\* required actions not all completed, and counts the days before it that
\* have required actions.
streakWalk(start, shift, scheduledDays, completedDays) ==
    LET dayKey(i) == (start - i * HoursPerDay - shift) \div HoursPerDay
        requiredActions(i) == {a \in DOMAIN scheduledDays : dayKey(i) \in scheduledDays[a]}
        completedActions(i) == {a \in DOMAIN completedDays : dayKey(i) \in completedDays[a]}
        walked == 0..(LookbackDays - 1)
        breaks == {i \in walked : /\ requiredActions(i) # {}
                                  /\ ~(requiredActions(i) \subseteq completedActions(i))}
        last == IF breaks = {} THEN LookbackDays
                ELSE CHOOSE i \in breaks : \A j \in breaks : i <= j
    IN  Cardinality({i \in 0..(last - 1) : requiredActions(i) # {}})

LoggedActions == {logs[i].action_id : i \in DOMAIN logs}

\* useCurrentStreak: every day key is taken with toISOString, the walk
\* starts at the local midnight of today
useCurrentStreak(clock, tz) ==
    LET scheduledDays == [a \in calendarActions |->
                            {toISODay(t, tz) : t \in occurrences(actions[a], clock)}]
        completedDays == [a \in LoggedActions |->
                            {toISODay(logs[i].completed_at, tz) :
                                i \in {j \in DOMAIN logs : logs[j].action_id = a}}]
    IN  IF Len(logs) = 0 THEN 0
        ELSE streakWalk(startOfDay(clock), tz, scheduledDays, completedDays)

\* calculateStreak of date-helpers: the same walk over local day keys, on
\* the scheduled days it is handed
calculateStreak(scheduledDays, clock) ==
    LET completedDays == [a \in LoggedActions |->
                            {formatDay(startOfDay(logs[i].completed_at)) :
                                i \in {j \in DOMAIN logs : logs[j].action_id = a}}]
    IN  IF Len(logs) = 0 THEN 0
        ELSE streakWalk(startOfDay(clock), 0, scheduledDays, completedDays)

\* Math.round of the quotient n / d of two non-negative numbers
MathRound(n, d) == (2 * n + d) \div (2 * d)

Min(a, b) == IF a < b THEN a ELSE b
Max(a, b) == IF a > b THEN a ELSE b

RECURSIVE SumOver(_, _)
SumOver(S, f) ==
    IF S = {} THEN 0
    ELSE LET x == CHOOSE y \in S : TRUE
         IN  f[x] + SumOver(S \ {x}, f)

\* the logs of the window and the required count of useCompliancePercentage
logsInRange(days, clock) ==
    {i \in DOMAIN logs : /\ logs[i].completed_at >= clock - days * HoursPerDay
                         /\ logs[i].completed_at <= clock}

totalRequired(days) ==
    SumOver(calendarActions,
            [a \in calendarActions |-> Max(1, days \div actions[a].schedule_frequency)])

useCompliancePercentage(days, clock) ==
    LET totalCompleted == Cardinality(logsInRange(days, clock))
    IN  IF totalRequired(days) = 0 THEN 100
        ELSE Min(100, MathRound(totalCompleted * 100, totalRequired(days)))

\* calculateCompliancePercentage of date-helpers
calculateCompliancePercentage(completedCount, requiredCount) ==
    IF requiredCount = 0 THEN 100
    ELSE MathRound(completedCount * 100, requiredCount)

----
(* Clock *)

Tick ==
    /\ now + TickHours <= MaxNow
    /\ now' = now + TickHours
    /\ UNCHANGED <<components, actions, logs, result, probe>>
    /\ UNCHANGED notifyVars

----
(* Calculator probe: the pure functions applied to drawn inputs *)

NoProbe == [due |-> Null, freq |-> 1, kind |-> "none",
            next |-> Null, overdue |-> FALSE, dueToday |-> FALSE, upcoming |-> FALSE]

PureNows == PureNowLo .. (PureNowLo + PureNowSpan)
PureDues == 0 .. MaxPureDue

InitPure ==
    /\ now \in PureNows
    /\ \E d \in PureDues, f \in 1..MaxFreq :
          probe = [NoProbe EXCEPT !.due = d, !.freq = f, !.kind = "input"]
    /\ components = <<>>
    /\ actions = <<>>
    /\ logs = <<>>
    /\ result = NoResult
    /\ NotifyIdle

ProbeNextDue ==
    /\ probe.kind = "input"
    /\ probe' = [probe EXCEPT !.kind = "next",
                   !.next = calculateNextDueDate(probe.due, probe.freq, "days", now)]
    /\ UNCHANGED <<now, components, actions, logs, result>>
    /\ UNCHANGED notifyVars

ProbeStatus ==
    /\ probe.kind = "input"
    /\ probe' = [probe EXCEPT !.kind = "status",
                   !.overdue = isOverdue(probe.due, now),
                   !.dueToday = isDueToday(probe.due, now),
                   !.upcoming = isUpcoming(probe.due, DefaultWithinDays, now)]
    /\ UNCHANGED <<now, components, actions, logs, result>>
    /\ UNCHANGED notifyVars

NextPure == ProbeNextDue \/ ProbeStatus

SpecPure == InitPure /\ [][NextPure]_vars

----
(* Escalation probe: shouldShowReminder applied to drawn due items *)

ReminderStrategies == {"gentle", "standard", "urgent"}
EscalationStrategies == {"single_daily", "multiple_daily", "increasing_urgency"}
IntervalChoices == {0, 4, 8}

RECURSIVE ListsUpTo(_)
\* the interval lists of at most n entries
ListsUpTo(n) ==
    IF n = 0 THEN {<<>>}
    ELSE LET shorter == ListsUpTo(n - 1)
         IN  shorter \cup {Append(l, x) : l \in {m \in shorter : Len(m) = n - 1},
                                           x \in IntervalChoices}

ProbeConfigs ==
    {Absent} \cup
    {Present(NewNotificationConfig("a1", TRUE, st, l)) :
        st \in EscalationStrategies, l \in ListsUpTo(MaxIntervals)}

ProbeDueItem(reminderStrategy, config, hoursOverdue) ==
    [action |-> NewAction("c1", 1, "days", Null, reminderStrategy),
     notificationConfig |-> config,
     hoursOverdue |-> hoursOverdue,
     isOverdue |-> hoursOverdue >= HoursPerDay]

InitEscalation ==
    /\ now = StartNow
    /\ \E r \in ReminderStrategies, c \in ProbeConfigs,
          h \in 0..MaxHoursOverdue, n \in 0..MaxReminderCount :
          probe = [kind |-> "due", item |-> ProbeDueItem(r, c, h), count |-> n,
                   strategy |-> "none", intervals |-> <<>>, show |-> FALSE]
    /\ components = <<>>
    /\ actions = <<>>
    /\ logs = <<>>
    /\ result = NoResult
    /\ NotifyIdle

ProbeReminder ==
    /\ probe.kind = "due"
    /\ probe' = [probe EXCEPT !.kind = "reminder",
                   !.strategy = effectiveStrategy(probe.item),
                   !.intervals = effectiveIntervals(probe.item),
                   !.show = shouldShowReminder(probe.item, probe.count)]
    /\ UNCHANGED <<now, components, actions, logs, result>>
    /\ UNCHANGED notifyVars

NextEscalation == ProbeReminder

SpecEscalation == InitEscalation /\ [][NextEscalation]_vars

----
(* Lifecycle specification: one store, the clock and the engine's operations *)

SnoozeOptions == {4, 24}
RescheduleOffsets == {-50, 30}
CompletedAtChoices(clock) ==
    {clock} \cup (IF clock >= BackdateHours THEN {clock - BackdateHours} ELSE {})

\* schedules a user can set up; the first three are the templates' cadences
DailyRinse == NewAction("c1", 1, "days", 8, "gentle")
WeeklyClean == NewAction("c1", 7, "days", Null, "standard")
EveryOther == NewAction("c1", 2, "days", Null, "urgent")
FilterUses == NewAction("c1", 2, "uses", Null, "standard")
OtherChamber == NewAction("c2", 1, "days", 10, "gentle")

\* the stores the engine starts from: a single action, or two actions of
\* different components
InitialStores ==
    {[a \in {"a1"} |-> focus] : focus \in {DailyRinse, WeeklyClean, EveryOther, FilterUses}}
    \cup {[a \in {"a1", "a2"} |-> IF a = "a1" THEN DailyRinse ELSE OtherChamber]}

Init ==
    /\ now = StartNow
    /\ components = [c \in ComponentIds |-> NewComponent]
    /\ actions \in InitialStores
    /\ logs = <<>>
    /\ result = NoResult
    /\ NotifyIdle
    /\ probe = NoProbe

Complete == \E a \in ActionIds, t \in CompletedAtChoices(now) : completeMaintenanceAction(a, t)

Skip == \E a \in ActionIds : skipMaintenanceAction(a)

Snooze == \E a \in ActionIds, h \in SnoozeOptions : snoozeMaintenanceAction(a, h)

Initialize == \E a \in ActionIds : initializeMaintenanceAction(a)

InitializeAll == initializeAllMaintenanceActions

Reschedule ==
    \E a \in ActionIds, off \in RescheduleOffsets :
        /\ now + off >= 0
        /\ rescheduleMaintenanceAction(a, now + off)

Next ==
    \/ Tick
    \/ Complete
    \/ Skip
    \/ Snooze
    \/ Initialize
    \/ InitializeAll
    \/ Reschedule

Spec == Init /\ [][Next]_vars

----
(* Usage specification: the usage counters and the actions they drive *)

ReplaceFilter == NewAction("c1", 30, "uses", Null, "standard")
WipeCushion == NewAction("c1", 3, "uses", Null, "gentle")
RinseChamber == NewAction("c2", 2, "uses", Null, "urgent")

UsageStores ==
    {[a \in {"a1"} |-> ReplaceFilter],
     [a \in ActionIds |-> IF a = "a1" THEN WipeCushion
                          ELSE IF a = "a2" THEN DailyRinse ELSE RinseChamber]}

RECURSIVE MaxOf(_)
MaxOf(S) == IF S = {} THEN 0
            ELSE LET x == CHOOSE y \in S : TRUE
                     m == MaxOf(S \ {x})
                 IN  IF x > m THEN x ELSE m

\* the counters are followed up to the largest threshold of the component
UsageCap(componentId) ==
    MaxOf({actions[a].schedule_frequency :
             a \in {b \in getByComponent(componentId) : actions[b].schedule_unit = "uses"}})
    + MaxOvershoot

InitUsage ==
    /\ now = StartNow
    /\ components = [c \in ComponentIds |-> NewComponent]
    /\ actions \in UsageStores
    /\ logs = <<>>
    /\ result = NoResult
    /\ NotifyIdle
    /\ probe = NoProbe

UpdateUsage ==
    \E c \in ComponentIds \cup {UnknownId}, inc \in 1..MaxIncrement :
        /\ c \in DOMAIN components => components[c].usage_count + inc <= UsageCap(c)
        /\ updateComponentUsage(c, inc)

NextUsage ==
    \/ Tick
    \/ UpdateUsage
    \/ Initialize
    \/ Skip

SpecUsage == InitUsage /\ [][NextUsage]_vars

----
(* Counter specification: invocations of updateComponentUsage that overlap *)
(* at their store operations, with the increments a caller can pass       *)

InitCounter ==
    /\ now = StartNow
    /\ components = [c \in ComponentIds |-> NewComponent]
    /\ actions \in UsageStores
    /\ logs = <<>>
    /\ result = NoResult
    /\ NotifyIdle
    /\ probe = NoUsageCalls

\* the increments a caller passes are whole numbers of either sign
NextCounter ==
    \/ Tick
    \/ \E p \in UsageCallers, c \in ComponentIds \cup {UnknownId},
          inc \in (0 - MaxDecrement)..MaxIncrement :
            incrementUsage_get(p, c, inc)
    \/ \E p \in UsageCallers : incrementUsage_update(p)
    \/ \E p \in UsageCallers : updateComponentUsage_recalculate(p)

SpecCounter == InitCounter /\ [][NextCounter]_vars

----
(* Cascade specification: components deleted from a store that holds *)
(* actions, logs and notification configs of two components          *)

\* two actions of the first component and one of the second, with no logs
\* and configs, with some, or with logs and configs of every action
InitCascade ==
    /\ now = StartNow
    /\ components = [c \in ComponentIds |-> NewComponent]
    /\ actions = [a \in ActionIds |-> IF a = "a1" THEN DailyRinse
                                      ELSE IF a = "a2" THEN WeeklyClean
                                      ELSE OtherChamber]
    /\ logs \in {<<>>,
                 <<NewLog(OtherChamber, "a3", 2, FALSE), NewLog(DailyRinse, "a1", 3, FALSE)>>,
                 <<NewLog(DailyRinse, "a1", 1, FALSE), NewLog(OtherChamber, "a3", 2, FALSE),
                   NewLog(WeeklyClean, "a2", 3, FALSE), NewLog(DailyRinse, "a1", 5, FALSE)>>}
    /\ result = NoResult
    /\ probe = NoProbe
    /\ notificationConfigs \in
          {<<>>,
           <<NewNotificationConfig("a1", TRUE, "single_daily", <<0>>),
             NewNotificationConfig("a3", TRUE, "multiple_daily", <<0, 4>>)>>,
           <<NewNotificationConfig("a3", FALSE, "single_daily", <<0>>),
             NewNotificationConfig("a2", TRUE, "multiple_daily", <<0, 4>>),
             NewNotificationConfig("a1", TRUE, "single_daily", <<0>>)>>}
    /\ shownNotifications = <<>>
    /\ delivered = [a \in ActionIds |-> <<>>]
    /\ checks = [p \in Invokers |-> IdleCheck]
    /\ browser = [permission |-> "default", badge |-> 0]

NextCascade ==
    \/ Tick
    \/ \E id \in ComponentIds \cup {UnknownId} : deleteComponent(id)

SpecCascade == InitCascade /\ [][NextCascade]_vars

----
(* Notification specification: check cycles of the timer and of the *)
(* visibility listener over a store that holds due and undue actions *)

SingleDaily(actionId) == NewNotificationConfig(actionId, TRUE, "single_daily", <<0>>)
TwiceDaily(actionId) == NewNotificationConfig(actionId, TRUE, "multiple_daily", <<0, 4>>)
Disabled(actionId) == NewNotificationConfig(actionId, FALSE, "multiple_daily", <<0, 4>>)

Due(action, due) == [action EXCEPT !.next_due = due]

\* the next_due of a gentle, a standard and an urgent action: set or not,
\* behind or ahead of the first check, in or out of priority order
DueHours == {<<6, Null, 20>>, <<30, 2, 6>>, <<6, 2, 6>>, <<6, 2, 20>>}

NotifyStores ==
    {[a \in ActionIds |->
         IF a = "a1" THEN Due(DailyRinse, d[1])
         ELSE IF a = "a2" THEN Due(WeeklyClean, d[2])
         ELSE Due(NewAction("c2", 2, "days", Null, "urgent"), d[3])] : d \in DueHours}

AllActive == [c \in ComponentIds |-> NewComponent]
OneRetired == [AllActive EXCEPT !["c2"].is_active = FALSE]
OneDeleted == [c \in {"c1"} |-> NewComponent]

\* the components with the config table a user has set up in the settings
\* dialog
NotifySetups ==
    {[components |-> AllActive, configs |-> <<>>],
     [components |-> AllActive, configs |-> <<SingleDaily("a1")>>],
     [components |-> AllActive, configs |-> <<TwiceDaily("a1")>>],
     [components |-> OneRetired, configs |-> <<Disabled("a1")>>],
     [components |-> OneDeleted, configs |-> <<Disabled("a3"), TwiceDaily("a1")>>]}

InitNotify ==
    /\ now = StartNow
    /\ \E setup \in NotifySetups :
          /\ components = setup.components
          /\ notificationConfigs = setup.configs
    /\ actions \in NotifyStores
    /\ logs = <<>>
    /\ result = NoResult
    /\ probe = NoProbe
    /\ shownNotifications = <<>>
    /\ delivered = [a \in ActionIds |-> <<>>]
    /\ checks = [p \in Invokers |-> IdleCheck]
    /\ browser \in {[permission |-> perm, badge |-> 0] : perm \in {"granted", "denied"}}

CheckScan == \E p \in Invokers : checkAndNotify_scan(p)

CheckNotify == \E p \in Invokers, constructed \in BOOLEAN : checkAndNotify_notify(p, constructed)

NextNotify ==
    \/ Tick
    \/ CheckScan
    \/ CheckNotify

SpecNotify == InitNotify /\ [][NextNotify]_vars

----
(* Snooze specification: actions snoozed from the home page between the *)
(* check cycles of the timer, with notifications allowed and shown      *)

\* one action of each reminder strategy, due before the first check,
\* without a config or with one
InitSnooze ==
    /\ now = StartNow
    /\ components = AllActive
    /\ notificationConfigs \in {<<>>, <<SingleDaily("a1")>>, <<TwiceDaily("a1")>>}
    /\ actions \in {[a \in {"a1"} |-> Due(focus, 6)] :
                       focus \in {DailyRinse, WeeklyClean, EveryOther}}
    /\ logs = <<>>
    /\ result = NoResult
    /\ probe = NoProbe
    /\ shownNotifications = <<>>
    /\ delivered = [a \in ActionIds |-> <<>>]
    /\ checks = [p \in Invokers |-> IdleCheck]
    /\ browser = [permission |-> "granted", badge |-> 0]

NextSnooze ==
    \/ Tick
    \/ Snooze
    \/ checkAndNotify_scan("timer")
    \/ checkAndNotify_notify("timer", TRUE)

SpecSnooze == InitSnooze /\ [][NextSnooze]_vars

----
(* Scheduler specification: the app and the settings page starting, *)
(* stopping and querying the scheduler while the window runs timers *)
(* and dispatches visibility events                                 *)

InitScheduler ==
    /\ now = StartNow
    /\ components = [c \in ComponentIds |-> NewComponent]
    /\ actions = [a \in {"a1"} |-> DailyRinse]
    /\ logs = <<>>
    /\ result = NoResult
    /\ NotifyIdle
    /\ probe = NoScheduler

NextScheduler ==
    \/ getNotificationScheduler
    \/ startNotificationScheduler
    \/ stopNotificationScheduler
    \/ intervalElapsed
    \/ \E v \in {"visible", "hidden"} : handleVisibilityChange(v)

SpecScheduler == InitScheduler /\ [][NextScheduler]_vars

----
(* Analytics specification: the streak and the compliance percentage over *)
(* drawn logs, in time zones behind, at and ahead of UTC                  *)

TimeZones == {-5, 0, 5}
AnalyticsNows == {82, 93}
ComplianceWindows == {7, DefaultComplianceDays}

MonthlyReplace == NewAction("c1", 30, "days", Null, "standard")

\* completions that may be in the log: action and hour
LoggedCompletions ==
    <<[id |-> "a1", at |-> 81], [id |-> "a1", at |-> 57], [id |-> "a1", at |-> 44],
      [id |-> "a2", at |-> 58], [id |-> "a3", at |-> 60]>>

AnalyticsStores ==
    {[a \in {"a1"} |-> Due(DailyRinse, 104)],
     [a \in {"a1"} |-> Due(MonthlyReplace, 100)],
     [a \in {"a3"} |-> FilterUses],
     [a \in ActionIds |-> IF a = "a1" THEN Due(DailyRinse, 104)
                          ELSE IF a = "a2" THEN Due(EveryOther, 106)
                          ELSE FilterUses]}

RECURSIVE LogsOf(_, _)
\* the log table holding the chosen completions, in the order of the list
LogsOf(chosen, i) ==
    IF i > Len(LoggedCompletions) THEN <<>>
    ELSE (IF i \in chosen
          THEN <<NewLog(NewAction("c1", 1, "days", Null, "gentle"),
                        LoggedCompletions[i].id, LoggedCompletions[i].at, FALSE)>>
          ELSE <<>>) \o LogsOf(chosen, i + 1)

NoAnalytics == [kind |-> "none", tz |-> 0, days |-> 0, streak |-> 0, helperStreak |-> 0,
                percentage |-> 0, helperPercentage |-> 0]

InitAnalytics ==
    /\ now \in AnalyticsNows
    /\ components = [c \in ComponentIds |-> NewComponent]
    /\ actions \in AnalyticsStores
    /\ \E chosen \in SUBSET DOMAIN LoggedCompletions :
          /\ Cardinality(chosen) <= MaxStreakLogs
          /\ logs = LogsOf(chosen, 1)
    /\ result = NoResult
    /\ NotifyIdle
    /\ \E tz \in TimeZones : probe = [NoAnalytics EXCEPT !.tz = tz]

ProbeStreak ==
    /\ probe.kind = "none"
    /\ probe' = [probe EXCEPT
                   !.kind = "streak",
                   !.streak = useCurrentStreak(now, probe.tz),
                   !.helperStreak =
                       calculateStreak([a \in calendarActions |->
                                           {formatDay(t) :
                                               t \in occurrences(actions[a], now)}], now)]
    /\ UNCHANGED <<now, components, actions, logs, result>>
    /\ UNCHANGED notifyVars

ProbeCompliance ==
    /\ probe.kind = "none"
    /\ \E days \in ComplianceWindows :
          probe' = [probe EXCEPT
                      !.kind = "compliance",
                      !.days = days,
                      !.percentage = useCompliancePercentage(days, now),
                      !.helperPercentage =
                          calculateCompliancePercentage(
                              Cardinality(logsInRange(days, now)), totalRequired(days))]
    /\ UNCHANGED <<now, components, actions, logs, result>>
    /\ UNCHANGED notifyVars

NextAnalytics == ProbeStreak \/ ProbeCompliance

SpecAnalytics == InitAnalytics /\ [][NextAnalytics]_vars

----
(* Properties of the calculator *)

MaxSteps == (PureNowLo + PureNowSpan) \div HoursPerDay + 2

NotYetFuture(d, clock) == d < clock \/ startOfDay(d) = startOfDay(clock)

\* C1: for unit = days the result of calculateNextDueDate is
\* originalDue + k*frequency days for the smallest k >= 0 whose date is
\* neither before now nor on today's calendar day.
C1_SmallestCadenceStep ==
    probe.kind = "next" =>
        \E k \in 0..MaxSteps :
            /\ probe.next = probe.due + k * probe.freq * HoursPerDay
            /\ ~NotYetFuture(probe.next, now)
            /\ \A j \in 0..(k - 1) :
                   NotYetFuture(probe.due + j * probe.freq * HoursPerDay, now)

\* C1 witness: an anchor more than one interval behind, whose next occurrence
\* differs from now + frequency
C1_Witness ==
    /\ probe.kind = "next"
    /\ probe.next >= probe.due + 2 * probe.freq * HoursPerDay
    /\ probe.next # addDays(now, probe.freq)
    /\ probe.freq > 1

TrueCount(bs) == Cardinality({i \in DOMAIN bs : bs[i]})

\* C6: no two of isOverdue, isDueToday, isUpcoming(7) hold together
C6_StatusExclusive ==
    probe.kind = "status" =>
        TrueCount(<<probe.overdue, probe.dueToday, probe.upcoming>>) <= 1

\* C7: isOverdue holds exactly when the due date is before the start of today
C7_OverdueIffBeforeToday ==
    probe.kind = "status" =>
        (probe.overdue <=> probe.due < startOfDay(now))

----
(* Properties of the schedule engine *)

LifeSteps == MaxNow \div HoursPerDay + 2

Done(op) == result.op = op /\ ~result.error /\ result.id \in DOMAIN actions

Target == actions[result.id]

Stamped(action, d) ==
    IF action.notification_time = Null THEN d
    ELSE d - (d % HoursPerDay) + action.notification_time

Interval(action) == action.schedule_frequency * HoursPerDay

\* to is from + k intervals, the first of them that is after today at clock
CadenceStep(action, from, to, clock, k) ==
    /\ to = from + k * Interval(action)
    /\ ~NotYetFuture(to, clock)
    /\ \A j \in 0..(k - 1) : NotYetFuture(from + j * Interval(action), clock)

\* the date complete and skip leave behind for an action whose next_due was from
OnCadenceOf(action, from, clock) ==
    IF action.schedule_unit = "days"
    THEN \E k \in 0..LifeSteps :
            /\ CadenceStep(action, from, from + k * Interval(action), clock, k)
            /\ action.next_due = Stamped(action, from + k * Interval(action))
    ELSE action.next_due = Stamped(action, from)

\* C2: after complete on a days-unit action whose next_due was D, next_due is
\* D advanced by whole multiples of frequency days (the first that is after
\* today) stamped with the notification time, last_completed is completedAt
\* and the returned nextDueDate is the persisted next_due.
C2_CompleteFromOriginalDue ==
    (Done("complete") /\ result.prevDue # Null /\ Target.schedule_unit = "days") =>
        /\ OnCadenceOf(Target, result.prevDue, result.at)
        /\ Target.last_completed = result.arg
        /\ result.value = Target.next_due

\* C2 witness: a late completion, more than one interval after the due date,
\* whose next due date differs from completedAt + frequency
C2_Witness ==
    /\ Done("complete")
    /\ result.prevDue # Null
    /\ Target.schedule_unit = "days"
    /\ result.arg > result.prevDue + Interval(Target)
    /\ Target.next_due >= result.prevDue + 2 * Interval(Target)
    /\ Target.next_due # Stamped(Target, result.arg + Interval(Target))

\* C3: the log written by complete carries was_overdue = overdue status of the
\* pre-completion next_due evaluated at completedAt
C3_WasOverdueAtCompletedAt ==
    (Done("complete") /\ Len(logs) > 0) =>
        logs[Len(logs)].was_overdue =
            (IF result.prevDue = Null THEN FALSE
             ELSE differenceInDays(result.arg, result.prevDue) > 0)

\* C4 as stated: skip advances next_due by exactly one frequency interval
\* (read for calendar actions, and up to the notification time stamp)
C4_SkipOneStep ==
    (Done("skip") /\ result.prevDue # Null /\ Target.schedule_unit = "days") =>
        Target.next_due = Stamped(Target, result.prevDue + Interval(Target))

\* C4 amended: skip advances a days-unit next_due by the smallest number
\* k >= 0 of frequency intervals that puts it after today (then stamps the
\* notification time); a uses-unit next_due is not advanced.
C4_SkipToNextOccurrence ==
    (Done("skip") /\ result.prevDue # Null) =>
        /\ OnCadenceOf(Target, result.prevDue, result.at)
        /\ result.value = Target.next_due

\* C4 witness: a skip of a far overdue days-unit action, two or more intervals
C4_Witness ==
    /\ Done("skip")
    /\ result.prevDue # Null
    /\ Target.schedule_unit = "days"
    /\ Target.next_due >= result.prevDue + 2 * Interval(Target)

SameButNextDue(a, b) == [a EXCEPT !.next_due = Null] = [b EXCEPT !.next_due = Null]

\* C5: skip, snooze, reschedule and initialize leave the logs alone and change
\* no field of any action other than next_due
C5_OnlyNextDueChanges ==
    [][(Skip \/ Snooze \/ Reschedule \/ Initialize \/ InitializeAll) =>
          /\ logs' = logs
          /\ components' = components
          /\ DOMAIN actions' = DOMAIN actions
          /\ \A a \in DOMAIN actions : SameButNextDue(actions'[a], actions[a])]_vars

\* C5 witness: a snooze that moved the due date of an action with a completion log
C5_Witness ==
    /\ Done("snooze")
    /\ Len(logs) > 0
    /\ logs[1].action_id = result.id
    /\ Target.last_completed # Null
    /\ Target.next_due # result.prevDue

\* C8: initialize on an action whose next_due is set writes nothing and
\* returns the action as it is, alone or through initializeAll
C8_InitializeIdempotent ==
    [][\A a \in DOMAIN actions :
          (actions[a].next_due # Null /\ (initializeMaintenanceAction(a) \/ InitializeAll)) =>
              /\ actions'[a] = actions[a]
              /\ logs' = logs
              /\ (initializeMaintenanceAction(a) => result'.value = actions[a].next_due)]_vars

\* C8 witness: a repeated initialize at a clock where a fresh initial due date
\* would differ from the one already set
C8_Witness ==
    /\ Done("initialize")
    /\ result.prevDue # Null
    /\ Target.next_due = result.prevDue
    /\ calculateInitialDueDate(Target.schedule_frequency, Target.schedule_unit,
                               Target.notification_time, result.at) # result.prevDue

SnoozeSetsDue == Done("snooze") => Target.next_due = result.at + result.arg

AfterSnooze == (Done("complete") \/ Done("skip")) /\ result.after = "snooze"

\* C9 as stated: snooze sets next_due to now + hours and the following
\* complete or skip leaves snoozed date + k*frequency days
C9_SnoozedDatePlusIntervals ==
    /\ SnoozeSetsDue
    /\ AfterSnooze =>
          \E k \in 0..LifeSteps : Target.next_due = result.prevDue + k * Interval(Target)

\* C9 amended: snooze sets next_due to now + hours whatever it was, and the
\* following complete or skip leaves snoozed date + k*frequency days with its
\* time-of-day replaced by the notification time when one is configured
C9_SnoozeIsNewAnchor ==
    /\ SnoozeSetsDue
    /\ AfterSnooze => OnCadenceOf(Target, result.prevDue, result.at)

\* C9 witness: a completion after a snooze whose next due date is on the
\* snoozed date's cadence at the notification time
C9_Witness ==
    /\ Done("complete")
    /\ result.after = "snooze"
    /\ Target.schedule_unit = "days"
    /\ Target.notification_time # Null
    /\ result.prevDue % HoursPerDay # Target.notification_time
    /\ Target.next_due > result.prevDue

NotDueYet(action, clock) == action.next_due = Null \/ action.next_due > clock

\* C10: updateComponentUsage adds the increment to the component's counter
\* and forces next_due = now on exactly the uses-unit actions of that
\* component whose frequency the new counter has reached and that are not
\* already due; every other action and component is unchanged.
C10_UsageThresholdForcesDue ==
    [][\A c \in ComponentIds, inc \in 1..MaxIncrement :
          updateComponentUsage(c, inc) =>
              /\ components'[c].usage_count = components[c].usage_count + inc
              /\ \A o \in ComponentIds \ {c} : components'[o] = components[o]
              /\ \A a \in DOMAIN actions :
                    IF /\ actions[a].component_id = c
                       /\ actions[a].schedule_unit = "uses"
                       /\ components[c].usage_count + inc >= actions[a].schedule_frequency
                       /\ NotDueYet(actions[a], now)
                    THEN actions'[a] = [actions[a] EXCEPT !.next_due = now]
                    ELSE actions'[a] = actions[a]]_vars

\* C10 witness: the call of increment 1 that brings the counter to a
\* frequency of 30 has forced the action due at the clock of the call
C10_Witness ==
    /\ result.op = "updateUsage"
    /\ ~result.error
    /\ result.arg = 1
    /\ result.value = 30
    /\ \E a \in DOMAIN actions :
          /\ actions[a].component_id = result.id
          /\ actions[a].schedule_unit = "uses"
          /\ actions[a].schedule_frequency = result.value
          /\ actions[a].next_due = result.at

----
(* Properties of usage-based actions *)

\* the due test of the notification scan
IsDue(action, clock) == action.next_due # Null /\ action.next_due <= clock

UsesActions == {a \in DOMAIN actions : actions[a].schedule_unit = "uses"}

ThresholdReached(action) ==
    components[action.component_id].usage_count >= action.schedule_frequency

----
(* Properties of the failure path *)

ActionOps == {"complete", "skip", "snooze", "initialize", "reschedule"}

\* C12: complete, skip, snooze, initialize and reschedule called with an
\* action id that does not resolve fail with a not-found error (and leave
\* the store as it was)
C12_UnknownIdFailsNotFound ==
    (result.op \in ActionOps /\ result.id \notin DOMAIN actions) => result.error

----
(* Properties of the escalation policy *)

NonDecreasing(list) == \A i \in 1..(Len(list) - 1) : list[i] <= list[i + 1]

Asked(strategy) == probe.kind = "reminder" /\ probe.strategy = strategy

\* C14: under multiple-daily with a non-decreasing interval list L
\* (duplicates allowed) a reminder fires at counter c and hoursOverdue h
\* exactly when c < |L| and h >= L[c]
C14_FiresPerCrossedThreshold ==
    (Asked("multiple_daily") /\ NonDecreasing(probe.intervals)) =>
        (probe.show <=> /\ probe.count < Len(probe.intervals)
                        /\ probe.item.hoursOverdue >= probe.intervals[probe.count + 1])

C20_EffectiveStrategyAndIntervals ==
    probe.kind = "reminder" =>
        LET config == probe.item.notificationConfig
            reminder == probe.item.action.reminder_strategy
        IN  IF IsPresent(config)
            THEN /\ probe.strategy = Value(config).escalation_strategy
                 /\ probe.intervals = Value(config).escalation_intervals
            ELSE /\ reminder = "gentle" =>
                       probe.strategy = "single_daily" /\ probe.intervals = <<0>>
                 /\ reminder = "standard" =>
                       probe.strategy = "multiple_daily" /\ probe.intervals = <<0, 4, 8>>
                 /\ reminder = "urgent" =>
                       /\ probe.strategy = "increasing_urgency"
                       /\ probe.intervals = <<0, 2, 4, 8, 12>>

\* C20 witness: a standard action without a config gets its third reminder
\* at the default 8 hour checkpoint
C20_Witness ==
    /\ probe.kind = "reminder"
    /\ ~IsPresent(probe.item.notificationConfig)
    /\ probe.item.action.reminder_strategy = "standard"
    /\ probe.count = 2
    /\ probe.item.hoursOverdue = 8
    /\ probe.show

----
(* Properties of the check cycle *)

Scanned(p) == checks[p].phase = "scanned"

GentleActions == {a \in DOMAIN actions : actions[a].reminder_strategy = "gentle"}

ConfigsOf(a) ==
    {notificationConfigs[i] : i \in {j \in DOMAIN notificationConfigs :
                                        notificationConfigs[j].action_id = a}}

\* no two of the notifications shown for the action fall on one calendar day
OncePerDay(a) ==
    \A i, j \in DOMAIN delivered[a] :
        i # j => startOfDay(delivered[a][i].at) # startOfDay(delivered[a][j].at)

IsSingleDaily(a) ==
    IF ConfigsOf(a) = {}
    THEN actions[a].reminder_strategy = "gentle"
    ELSE \A nc \in ConfigsOf(a) : nc.escalation_strategy = "single_daily"

C16_OverdueFirstThenMostOverdue ==
    \A p \in Invokers :
        Scanned(p) =>
            LET list == checks[p].dueItems
            IN  \A i, j \in DOMAIN list :
                    i < j =>
                        /\ ~(~list[i].isOverdue /\ list[j].isOverdue)
                        /\ list[i].isOverdue = list[j].isOverdue =>
                               list[i].hoursOverdue >= list[j].hoursOverdue

\* C16 witness: three due items out of table order, overdue ones ahead of a
\* due-today one
C16_Witness ==
    \E p \in Invokers :
        /\ Scanned(p)
        /\ Len(checks[p].dueItems) = 3
        /\ checks[p].dueItems[1].id = "a2"
        /\ checks[p].dueItems[2].id = "a1"
        /\ checks[p].dueItems[2].isOverdue
        /\ ~checks[p].dueItems[3].isOverdue

\* the actions the claim expects in the scan made at clock
ExpectedDue(clock) ==
    {a \in DOMAIN actions :
        /\ actions[a].next_due # Null
        /\ actions[a].next_due <= clock
        /\ \E c \in DOMAIN components :
              c = actions[a].component_id /\ components[c].is_active
        /\ \A nc \in ConfigsOf(a) : nc.enabled}

\* C19: an action is in the list of getDueItemsForNotification exactly when
\* its next_due is set and <= now, its component exists and is active, and
\* it has no NotificationConfig with enabled = false
C19_DueActiveAndNotDisabled ==
    \A p \in Invokers :
        Scanned(p) =>
            LET list == checks[p].dueItems
            IN  /\ {list[i].id : i \in DOMAIN list} = ExpectedDue(checks[p].at)
                /\ Len(list) = Cardinality(ExpectedDue(checks[p].at))

\* C19 witness: of three actions that are due, the one with a disabled
\* config and the one of a retired component are left out and the one
\* without a config is listed
C19_Witness ==
    \E p \in Invokers :
        /\ Scanned(p)
        /\ \A a \in DOMAIN actions : IsDue(actions[a], checks[p].at)
        /\ Len(checks[p].dueItems) = 1
        /\ ConfigsOf(checks[p].dueItems[1].id) = {}
        /\ \E a \in DOMAIN actions : \E nc \in ConfigsOf(a) : ~nc.enabled
        /\ \E c \in DOMAIN components : ~components[c].is_active

----
(* Properties of the compliance analytics *)

Today == now \div HoursPerDay

\* the local calendar days on which an action has an occurrence, a log
ScheduledDaysOf(a) == {t \div HoursPerDay : t \in occurrences(actions[a], now)}
LoggedDaysOf(a) ==
    {logs[i].completed_at \div HoursPerDay :
        i \in {j \in DOMAIN logs : logs[j].action_id = a}}

\* the number of days, walking back from today, that have a scheduled
\* days-unit action and every scheduled action logged that day, up to the
\* first day with a scheduled action that is not logged
StreakOfCompleteDays ==
    LET scheduled == [a \in calendarActions |-> ScheduledDaysOf(a)]
        logged == [a \in calendarActions |-> LoggedDaysOf(a)]
        ScheduledOn(d) == {a \in calendarActions : d \in scheduled[a]}
        Missed(d) == \E a \in ScheduledOn(d) : d \notin logged[a]
        walked == (Today - (LookbackDays - 1))..Today
        missedDays == {d \in walked : Missed(d)}
        stop == IF missedDays = {} THEN Today - LookbackDays
                ELSE CHOOSE d \in missedDays : \A e \in missedDays : e <= d
    IN  Cardinality({d \in (stop + 1)..Today : ScheduledOn(d) # {}})

\* C17: the streak is the number of days, walking backward one calendar day
\* at a time from today (at most 365), that have a scheduled days-unit
\* action and every scheduled action logged that day; a day with nothing
\* scheduled is passed over, the walk stops at the first day with a
\* scheduled action that is not logged, and uses-unit actions are never
\* scheduled
C17_StreakOfCompleteDays ==
    probe.kind = "streak" => probe.streak = StreakOfCompleteDays

RequiredCount(days) ==
    SumOver({a \in DOMAIN actions : actions[a].schedule_unit = "days"},
            [a \in DOMAIN actions |->
                IF days \div actions[a].schedule_frequency > 1
                THEN days \div actions[a].schedule_frequency ELSE 1])

CompletedCount(days) ==
    Cardinality({i \in DOMAIN logs : /\ logs[i].completed_at >= now - days * HoursPerDay
                                     /\ logs[i].completed_at <= now})

\* round(100 * completed / required) capped at 100, or 100 without a
\* requirement
CappedPercentage(days) ==
    IF RequiredCount(days) = 0 THEN 100
    ELSE LET exact == 100 * CompletedCount(days)
             rounded == CHOOSE n \in 0..exact :
                            /\ 2 * n * RequiredCount(days) <= 2 * exact + RequiredCount(days)
                            /\ 2 * (n + 1) * RequiredCount(days)
                                   > 2 * exact + RequiredCount(days)
         IN  IF rounded > 100 THEN 100 ELSE rounded

\* C18: for a window of N days the compliance percentage is
\* min(100, round(100 * completed / required)), with required the sum over
\* days-unit actions of max(1, floor(N / frequency)) and completed the
\* number of logs inside the window; it is 100 when required is 0 and always
\* an integer in 0..100
C18_CappedCompliancePercentage ==
    probe.kind = "compliance" =>
        \A percentage \in {probe.percentage, probe.helperPercentage} :
            /\ percentage = CappedPercentage(probe.days)
            /\ percentage \in 0..100

----
(* Properties of the shown-notification records *)

----
(* Properties of overlapping check cycles *)

\* what an invocation that starts now and runs without suspension shows
ShownBackToBack ==
    notifyLoop(getDueItemsForNotification(now), 1, shownNotifications,
               delivered, TRUE).shown

----
(* Properties of the maintenance log *)

\* the call that returns in the step is a successful complete
CompleteReturns ==
    /\ result' # result
    /\ result'.op = "complete"
    /\ ~result'.error

----
(* Properties of the usage counter *)

\* C24: a component's usage counter never decreases and is never negative,
\* whatever updateComponentUsage calls are made
C24_UsageOnlyIncreases ==
    [][\A c \in DOMAIN components :
          /\ components'[c].usage_count >= components[c].usage_count
          /\ components'[c].usage_count >= 0]_vars

NoCallInFlight == \A p \in UsageCallers : probe.calls[p].phase = "idle"

\* C28: once every updateComponentUsage(componentId, 1) that was started has
\* returned, the counter of the component has grown by the number of those
\* calls, overlapping or not
C28_NoLostIncrement ==
    (probe.kind = "usage" /\ probe.unit /\ NoCallInFlight) =>
        \A c \in DOMAIN components :
            components[c].usage_count = probe.completed[c]

----
(* Properties of the delete cascade *)

DeleteReturns == result' # result /\ result'.op = "delete"

\* C25: after components.delete(id) the store holds no component with that
\* id, no action of it, no log that references it or one of its actions and
\* no notification config of one of its actions, and every other component,
\* action, log and config is as it was
C25_DeleteCascades ==
    [][DeleteReturns =>
          LET id == result'.id
              own == {a \in DOMAIN actions : actions[a].component_id = id}
          IN  /\ id \notin DOMAIN components'
              /\ \A a \in DOMAIN actions' : actions'[a].component_id # id
              /\ \A i \in DOMAIN logs' :
                    logs'[i].component_id # id /\ logs'[i].action_id \notin own
              /\ \A i \in DOMAIN notificationConfigs' :
                    notificationConfigs'[i].action_id \notin own
              /\ DOMAIN components' = DOMAIN components \ {id}
              /\ \A c \in DOMAIN components' : components'[c] = components[c]
              /\ DOMAIN actions' = DOMAIN actions \ own
              /\ \A a \in DOMAIN actions' : actions'[a] = actions[a]
              /\ logs' = SelectSeq(logs, LAMBDA log :
                                     log.component_id # id /\ log.action_id \notin own)
              /\ notificationConfigs' =
                     SelectSeq(notificationConfigs, LAMBDA nc : nc.action_id \notin own)]_vars

\* C25 witness: the component with two actions is deleted from a store that
\* held logs and configs of all three actions; the other component is left
\* with its action, its log and its config
C25_Witness ==
    /\ result.op = "delete"
    /\ result.id = "c1"
    /\ probe = [kind |-> "delete", removed |-> {"a1", "a2"}]
    /\ DOMAIN components = {"c2"}
    /\ DOMAIN actions = {"a3"}
    /\ logs = <<NewLog(OtherChamber, "a3", 2, FALSE)>>
    /\ Len(notificationConfigs) = 1
    /\ notificationConfigs[1].action_id = "a3"
    /\ ~notificationConfigs[1].enabled

----
(* Properties of the home screen *)

DueNow == {a \in DOMAIN actions : IsDue(actions[a], now)}

\* C26: every action whose next_due is at or before now is in exactly one
\* of the home buckets overdue and due today, so that getMaintenanceSummary
\* reports allCaughtUp, and the home page shows All caught up!, only when no
\* action has next_due <= now
C26_DueActionsAreOnHome ==
    /\ \A a \in DueNow :
          (a \in useOverdueActions(now)) # (a \in useDueTodayActions(now))
    /\ getMaintenanceSummary(now).allCaughtUp => DueNow = {}
    /\ showsAllCaughtUp(now) => DueNow = {}

----
(* Properties of completing a due action *)

\* the last call was a successful complete of an action that was due
CompletedWhenDue ==
    /\ Done("complete")
    /\ result.prevDue # Null
    /\ result.prevDue <= result.at

\* the action as the call left it is not selected for notification
NotSelectedAfter ==
    (now = result.at /\ Target.next_due = result.value) => ~isSelected(result.id, now)

\* C27: after a successful complete of an action that was due the new
\* next_due is strictly after now and getDueItemsForNotification no longer
\* selects the action, for days-unit and uses-unit actions alike
C27_CompleteClearsDue ==
    CompletedWhenDue =>
        /\ result.value > result.at
        /\ NotSelectedAfter

----
(* Properties of snoozing *)

\* the action was snoozed by the last call, on the calendar day of now, and
\* the snoozed next_due has been reached
SnoozeElapsed(a) ==
    /\ Done("snooze")
    /\ result.id = a
    /\ actions[a].next_due = result.value
    /\ isSameDay(result.at, now)
    /\ result.value <= now
    /\ components[actions[a].component_id].is_active
    /\ \A nc \in ConfigsOf(a) : nc.enabled

\* C29: a check cycle that scans after the snoozed next_due of an action
\* has been reached, on the calendar day of the snooze, shows a notification
\* for the action, whatever its strategy and whatever its counter of the day
C29_SnoozedReminderFires ==
    [][\A a \in DOMAIN actions :
          (/\ SnoozeElapsed(a)
           /\ Scanned("timer")
           /\ checks["timer"].at >= result.value
           /\ checks'["timer"].phase = "idle") =>
              \E i \in DOMAIN delivered'[a] : delivered'[a][i].at >= result.value]_vars

----
(* Properties of the scheduler *)

\* everything of the scheduler but the record of the last call
Registered(s) ==
    <<s.isRunning, s.checkIntervalId, s.intervals, s.listeners, s.lastId, s.checked>>

\* C30: whatever calls of startNotificationScheduler,
\* stopNotificationScheduler and getNotificationScheduler are made, at most
\* one interval and one visibility listener are registered, isActive() is
\* true exactly when the interval is registered, start on a running
\* scheduler and stop on a stopped one change nothing, and a start that
\* takes effect calls check() once
C30_OneTimerOneListener ==
    [][/\ Cardinality(probe'.intervals) <= 1
       /\ Cardinality(probe'.listeners) <= 1
       /\ isActive(probe') <=> probe'.intervals # {}
       /\ isActive(probe') <=> probe'.listeners # {}
       /\ (probe'.op = "start" /\ isActive(probe)) => Registered(probe') = Registered(probe)
       /\ (probe'.op = "stop" /\ ~isActive(probe)) => Registered(probe') = Registered(probe)
       /\ (probe'.op = "start" /\ ~isActive(probe)) =>
              /\ isActive(probe')
              /\ probe'.checked = probe.checked + 1
       /\ (probe'.op = "get") => Registered(probe') = Registered(probe)]_vars

\* C30 witness: the scheduler has been started, stopped and started again;
\* the one interval registered is the second that was set, and besides the
\* two immediate checks the interval and the listener have run two more
C30_Witness ==
    /\ probe.kind = "scheduler"
    /\ probe.op = "start"
    /\ probe.isRunning
    /\ probe.intervals = {2}
    /\ probe.checkIntervalId = 2
    /\ probe.listeners = {"handleVisibilityChange"}
    /\ probe.checked = 4

====
